---- MODULE Spec2Model ----
(***************************************************************************)
(* AnkiVoice scheduling core: the SM-2 review update                       *)
(* (SpacedRepetitionSystem.calculate_next_review), the latency adjustment, *)
(* and the mapping of a grader verdict (correct, confidence, latency) to a *)
(* quality score.  calculate_next_review is modelled step by step, one     *)
(* definition per block of its body.                                       *)
(*                                                                         *)
(* The specifications share the variables:                                 *)
(*   Spec          reviews of one progress record                          *)
(*   SpecQuality   quality_from_evaluation on every grader verdict         *)
(*   SpecLatency   one timed review at every edge of the latency bands     *)
(*   SpecGrowth    a run of successful reviews, under weak fairness        *)
(*   SpecRank      calculate_retention_rate and suggest_study_order on the *)
(*                 (card, progress) list of a study session                *)
(*   SpecDue       is_due and get_due_cards on the stored rows as time     *)
(*                 passes                                                  *)
(*   SpecCreate    get_or_create_progress of two browser sessions          *)
(*   SpecSessions  evaluate_answer and generate_questions_for_card of two  *)
(*                 browser sessions on the stored row of one card          *)
(*   SpecStudy     answering, continuing and skipping through the cards of *)
(*                 a study session                                         *)
(*                                                                         *)
(* Units.  Floats of the source are kept as scaled integers:               *)
(*   ease factors     in hundredths        (2.5   -> 250)                  *)
(*   confidences      in hundredths        (0.95  -> 95)                   *)
(*   response times   in half seconds      (3.0 s -> 6)                    *)
(*   timestamps       in clock ticks, TicksPerDay ticks to a day.          *)
(* Every float literal of the modelled code is a whole number of these     *)
(* units.  The ease factor of the source is an IEEE double that drifts by  *)
(* a few ulps from its decimal value (2.5 - 0.32 - 0.14 - 0.14 + 0.1 is    *)
(* 1.9999999999999998), which is visible only where int() truncates a      *)
(* product whose decimal value is a whole number; int_of_product keeps     *)
(* both outcomes.                                                          *)
(***************************************************************************)
EXTENDS Integers, Sequences, FiniteSets, TLC

\* ---- bounds of the model ------------------------------------------------
MaxReviews == 3
MaxClock == 1
TicksPerDay == 2
\* updates of list items between two calls of the study planner
MaxUpdates == 1
\* answers evaluated by the sessions of the application
MaxEvaluations == 2

\* successful reviews in a row of one record
MaxSuccesses == 20

\* ---- configuration (config.py) ------------------------------------------
SR_EASE_FACTOR_MIN == 130
SR_EASE_FACTOR_MAX == 400
SR_EASE_FACTOR_DEFAULT == 250
SR_MAX_INTERVAL == 365

\* None of an Optional[datetime] / Optional[float]
NoTime == -1

\* ---- input domains --------------------------------------------------------
\* quality handed to calculate_next_review: any integer, in and out of 0..5
QualityInputs == -1 .. 6
\* response times (half seconds): 0.5 s, 3 s, 6 s, 15 s, 60.5 s.  Between
\* them they select each of the five latency multipliers and each of the
\* three latency bonuses of quality_from_evaluation.
ResponseTimes == {1, 6, 12, 30, 121}
\* grader confidences (hundredths) around 0.3, 0.6, 0.8, 0.9
Confidences == {0, 20, 29, 30, 59, 60, 79, 80, 89, 90, 95, 100}
\* response times handed to quality_from_evaluation: those above and the
\* neighbours of its 3.0 s and 6.0 s edges (2 s, 3.5 s, 6.5 s)
EvaluationTimes == ResponseTimes \cup {4, 7, 13}

\* response times handed to a timed review (half seconds): for each quality
\* the three edges of its latency bands (half, once and twice the expected
\* time) and their neighbours
LatencyTimes ==
    {1, 2, 3, 4, 5, 7, 8, 9, 15, 16, 17, 19, 20, 21, 29, 30, 31, 32, 33,
     39, 40, 41, 59, 60, 61, 79, 80, 81, 119, 120, 121}

\* review histories of the progress records found in storage at start-up
\* (qualities of earlier reviews, oldest first): none, five good reviews and
\* fifteen perfect ones.  The five bring the interval to 133 days, within
\* one review of SR_MAX_INTERVAL; the fifteen bring the ease factor to
\* SR_EASE_FACTOR_MAX.
Histories == {<<>>, <<5, 5, 5, 5, 4>>, [i \in 1 .. 15 |-> 5]}

VARIABLES
    progress,   \* the UserProgress record of the card under review
    clock,      \* datetime.now()
    call,       \* the last call of the scheduler: arguments and return value
    nreviews,   \* reviews made since start-up
    cards_progress,  \* (card, progress) pairs: the list of a study session,
                     \* or the rows of cards JOIN user_progress in storage
    sessions    \* per browser session: the handler it runs, its locals and
                \* its session state

vars == <<progress, clock, call, nreviews, cards_progress, sessions>>

Min(a, b) == IF a < b THEN a ELSE b
Max(a, b) == IF a > b THEN a ELSE b

\* timedelta(days=n) in ticks
timedelta_days(n) == n * TicksPerDay

\* UserProgress(): the field defaults of the model class
UserProgress ==
    [ease_factor |-> SR_EASE_FACTOR_DEFAULT,
     interval_days |-> 1,
     repetitions |-> 0,
     last_review |-> NoTime,
     next_review |-> NoTime,
     total_reviews |-> 0,
     correct_reviews |-> 0,
     streak |-> 0,
     updated_at |-> NoTime]

\* calculate_ease_factor without the quadratic term of the penalty
calculate_ease_factor_linear(current_ease, quality) ==
    current_ease + (10 - (5 - quality) * 8)

\* EF' = EF + (0.1 - (5-q) * (0.08 + (5-q) * 0.02)), in hundredths
calculate_ease_factor(current_ease, quality) ==
    current_ease + (10 - (5 - quality) * (8 + (5 - quality) * 2))

\* int(interval_days * ease_factor): the truncated double product.  When the
\* decimal product is a whole number the double may sit just below it.
int_of_product(interval_days, ease_factor) ==
    LET p == interval_days * ease_factor
    IN  IF p % 100 = 0 THEN {p \div 100, (p \div 100) - 1} ELSE {p \div 100}

\* expected response time per quality, half seconds
expected_times(quality) ==
    CASE quality = 5 -> 4
      [] quality = 4 -> 8
      [] quality = 3 -> 16
      [] quality = 2 -> 30
      [] quality = 1 -> 40
      [] quality = 0 -> 60
      [] OTHER -> 16

\* adjust_for_response_time without the lower clamp of its result
adjust_for_response_time_unclamped(base_interval, response_time, quality) ==
    LET expected_time == expected_times(quality)
        adjustment ==
            IF response_time * 2 < expected_time THEN 12
            ELSE IF response_time < expected_time THEN 11
            ELSE IF response_time > expected_time * 2 THEN 8
            ELSE IF response_time > expected_time THEN 9
            ELSE 10
        adjusted_interval == (base_interval * adjustment) \div 10
    IN  Min(adjusted_interval, SR_MAX_INTERVAL)

\* adjust_for_response_time whose slowest band starts at exactly twice the
\* expected time
adjust_for_response_time_slow_edge(base_interval, response_time, quality) ==
    LET expected_time == expected_times(quality)
        adjustment ==
            IF response_time * 2 < expected_time THEN 12
            ELSE IF response_time < expected_time THEN 11
            ELSE IF response_time >= expected_time * 2 THEN 8
            ELSE IF response_time > expected_time THEN 9
            ELSE 10
        adjusted_interval == (base_interval * adjustment) \div 10
    IN  Max(1, Min(adjusted_interval, SR_MAX_INTERVAL))

\* adjust_for_response_time without the upper clamp of its result
adjust_for_response_time_no_max(base_interval, response_time, quality) ==
    LET expected_time == expected_times(quality)
        adjustment ==
            IF response_time * 2 < expected_time THEN 12
            ELSE IF response_time < expected_time THEN 11
            ELSE IF response_time > expected_time * 2 THEN 8
            ELSE IF response_time > expected_time THEN 9
            ELSE 10
        adjusted_interval == (base_interval * adjustment) \div 10
    IN  Max(1, adjusted_interval)

\* adjustment factor in tenths; int(i * a) equals (i * 10a) \div 10 in double
\* arithmetic for every i in 1..365 and a in {1.2, 1.1, 1.0, 0.9, 0.8}
adjust_for_response_time(base_interval, response_time, quality) ==
    LET expected_time == expected_times(quality)
        adjustment ==
            IF response_time * 2 < expected_time THEN 12
            ELSE IF response_time < expected_time THEN 11
            ELSE IF response_time > expected_time * 2 THEN 8
            ELSE IF response_time > expected_time THEN 9
            ELSE 10
        adjusted_interval == (base_interval * adjustment) \div 10
    IN  Max(1, Min(adjusted_interval, SR_MAX_INTERVAL))

\* quality_from_evaluation that scores an incorrect answer of confidence
\* exactly 0.3 or 0.6 one band lower
quality_from_evaluation_band_edges(is_correct, confidence, response_time) ==
    IF ~is_correct
    THEN IF confidence <= 30 THEN 0
         ELSE IF confidence <= 60 THEN 1
         ELSE 2
    ELSE LET confidence_bonus ==
                 IF confidence >= 90 THEN 2
                 ELSE IF confidence >= 80 THEN 1
                 ELSE 0
             time_bonus ==
                 IF response_time # NoTime
                 THEN IF response_time <= 6 THEN 1
                      ELSE IF response_time <= 12 THEN 0
                      ELSE 0 - 1
                 ELSE 0
         IN  Max(3, Min(5, 3 + confidence_bonus + time_bonus))

\* quality_from_evaluation whose latency bonus excludes exactly 3.0 s and
\* whose latency penalty starts at exactly 6.0 s
quality_from_evaluation_time_edges(is_correct, confidence, response_time) ==
    IF ~is_correct
    THEN IF confidence < 30 THEN 0
         ELSE IF confidence < 60 THEN 1
         ELSE 2
    ELSE LET confidence_bonus ==
                 IF confidence >= 90 THEN 2
                 ELSE IF confidence >= 80 THEN 1
                 ELSE 0
             time_bonus ==
                 IF response_time # NoTime
                 THEN IF response_time < 6 THEN 1
                      ELSE IF response_time < 12 THEN 0
                      ELSE 0 - 1
                 ELSE 0
         IN  Max(3, Min(5, 3 + confidence_bonus + time_bonus))

\* quality_from_evaluation clamping a correct answer to 0..5 instead of 3..5
quality_from_evaluation_low_clamp(is_correct, confidence, response_time) ==
    IF ~is_correct
    THEN IF confidence < 30 THEN 0
         ELSE IF confidence < 60 THEN 1
         ELSE 2
    ELSE LET confidence_bonus ==
                 IF confidence >= 90 THEN 2
                 ELSE IF confidence >= 80 THEN 1
                 ELSE 0
             time_bonus ==
                 IF response_time # NoTime
                 THEN IF response_time <= 6 THEN 1
                      ELSE IF response_time <= 12 THEN 0
                      ELSE 0 - 1
                 ELSE 0
         IN  Max(0, Min(5, 3 + confidence_bonus + time_bonus))

quality_from_evaluation(is_correct, confidence, response_time) ==
    IF ~is_correct
    THEN IF confidence < 30 THEN 0
         ELSE IF confidence < 60 THEN 1
         ELSE 2
    ELSE LET base_quality == 3
             confidence_bonus ==
                 IF confidence >= 90 THEN 2
                 ELSE IF confidence >= 80 THEN 1
                 ELSE 0
             time_bonus ==
                 IF response_time # NoTime
                 THEN IF response_time <= 6 THEN 1
                      ELSE IF response_time <= 12 THEN 0
                      ELSE 0 - 1
                 ELSE 0
             quality == base_quality + confidence_bonus + time_bonus
         IN  Max(3, Min(5, quality))

\* validate_quality that clamps from above only
validate_quality_no_lower(quality) == Min(5, quality)

\* line 52: quality = max(0, min(5, quality))
validate_quality(quality) == Max(0, Min(5, quality))

\* update_statistics that leaves the streak alone on an incorrect answer
update_statistics_streak_kept(p, quality, now) ==
    LET p1 == [p EXCEPT !.total_reviews = @ + 1, !.last_review = now]
    IN  IF quality >= 3
        THEN [p1 EXCEPT !.correct_reviews = @ + 1, !.streak = @ + 1]
        ELSE p1

\* update_statistics that counts every review as correct
update_statistics_all_correct(p, quality, now) ==
    LET p1 == [p EXCEPT !.total_reviews = @ + 1, !.last_review = now]
    IN  IF quality >= 3
        THEN [p1 EXCEPT !.correct_reviews = @ + 1, !.streak = @ + 1]
        ELSE [p1 EXCEPT !.correct_reviews = @ + 1, !.streak = 0]

\* update_statistics whose streak counts incorrect answers too
update_statistics_streak_counts_all(p, quality, now) ==
    LET p1 == [p EXCEPT !.total_reviews = @ + 1, !.last_review = now]
    IN  IF quality >= 3
        THEN [p1 EXCEPT !.correct_reviews = @ + 1, !.streak = @ + 1]
        ELSE [p1 EXCEPT !.streak = @ + 1]

\* lines 54-63: the review counters, last_review and the streak
update_statistics(p, quality, now) ==
    LET p1 == [p EXCEPT !.total_reviews = @ + 1, !.last_review = now]
    IN  IF quality >= 3
        THEN [p1 EXCEPT !.correct_reviews = @ + 1, !.streak = @ + 1]
        ELSE [p1 EXCEPT !.streak = 0]

\* update_ease_factor that clamps from below only
update_ease_factor_no_max(p, quality) ==
    LET new_ease_factor == calculate_ease_factor(p.ease_factor, quality)
    IN  [p EXCEPT !.ease_factor = Max(SR_EASE_FACTOR_MIN, new_ease_factor)]

\* lines 65-67: the new ease factor, clamped to its bounds
update_ease_factor(p, quality) ==
    LET new_ease_factor == calculate_ease_factor(p.ease_factor, quality)
    IN  [p EXCEPT !.ease_factor =
            Max(SR_EASE_FACTOR_MIN, Min(SR_EASE_FACTOR_MAX, new_ease_factor))]

\* update_interval whose lapse resets the repetitions but not the interval
update_interval_lapse_keeps_interval(p, quality) ==
    IF quality < 3
    THEN {[p EXCEPT !.repetitions = 0]}
    ELSE LET reps == p.repetitions + 1
         IN  IF reps = 1 THEN {[p EXCEPT !.repetitions = reps, !.interval_days = 1]}
             ELSE IF reps = 2 THEN {[p EXCEPT !.repetitions = reps, !.interval_days = 6]}
             ELSE { [p EXCEPT !.repetitions = reps,
                              !.interval_days = Min(new_interval, SR_MAX_INTERVAL)] :
                        new_interval \in int_of_product(p.interval_days, p.ease_factor) }

\* update_interval that treats quality 3 as a lapse
update_interval_lapse_at_3(p, quality) ==
    IF quality <= 3
    THEN {[p EXCEPT !.repetitions = 0, !.interval_days = 1]}
    ELSE LET reps == p.repetitions + 1
         IN  IF reps = 1 THEN {[p EXCEPT !.repetitions = reps, !.interval_days = 1]}
             ELSE IF reps = 2 THEN {[p EXCEPT !.repetitions = reps, !.interval_days = 6]}
             ELSE { [p EXCEPT !.repetitions = reps,
                              !.interval_days = Min(new_interval, SR_MAX_INTERVAL)] :
                        new_interval \in int_of_product(p.interval_days, p.ease_factor) }

\* update_interval without the fixed six days of the second repetition
update_interval_no_second_step(p, quality) ==
    IF quality < 3
    THEN {[p EXCEPT !.repetitions = 0, !.interval_days = 1]}
    ELSE LET reps == p.repetitions + 1
         IN  IF reps = 1 THEN {[p EXCEPT !.repetitions = reps, !.interval_days = 1]}
             ELSE { [p EXCEPT !.repetitions = reps,
                              !.interval_days = Min(new_interval, SR_MAX_INTERVAL)] :
                        new_interval \in int_of_product(p.interval_days, p.ease_factor) }

\* update_interval whose second success counts as the third repetition
update_interval_skip_learning(p, quality) ==
    IF quality < 3
    THEN {[p EXCEPT !.repetitions = 0, !.interval_days = 1]}
    ELSE LET reps == p.repetitions + 1
         IN  IF reps = 1 THEN {[p EXCEPT !.repetitions = reps, !.interval_days = 1]}
             ELSE IF reps = 2 THEN {[p EXCEPT !.repetitions = reps + 1, !.interval_days = 6]}
             ELSE { [p EXCEPT !.repetitions = reps,
                              !.interval_days = Min(new_interval, SR_MAX_INTERVAL)] :
                        new_interval \in int_of_product(p.interval_days, p.ease_factor) }

\* update_interval that stops one day short of the maximum interval
update_interval_below_max(p, quality) ==
    IF quality < 3
    THEN {[p EXCEPT !.repetitions = 0, !.interval_days = 1]}
    ELSE LET reps == p.repetitions + 1
         IN  IF reps = 1 THEN {[p EXCEPT !.repetitions = reps, !.interval_days = 1]}
             ELSE IF reps = 2 THEN {[p EXCEPT !.repetitions = reps, !.interval_days = 6]}
             ELSE { [p EXCEPT !.repetitions = reps,
                              !.interval_days = Min(new_interval, SR_MAX_INTERVAL - 1)] :
                        new_interval \in int_of_product(p.interval_days, p.ease_factor) }

\* lines 69-83: the new interval; p already carries the new ease factor
update_interval(p, quality) ==
    IF quality < 3
    THEN {[p EXCEPT !.repetitions = 0, !.interval_days = 1]}
    ELSE LET reps == p.repetitions + 1
         IN  IF reps = 1 THEN {[p EXCEPT !.repetitions = reps, !.interval_days = 1]}
             ELSE IF reps = 2 THEN {[p EXCEPT !.repetitions = reps, !.interval_days = 6]}
             ELSE { [p EXCEPT !.repetitions = reps,
                              !.interval_days = Min(new_interval, SR_MAX_INTERVAL)] :
                        new_interval \in int_of_product(p.interval_days, p.ease_factor) }

\* lines 85-91: the latency adjustment, when a response time was given
adjust_interval(p, response_time_seconds, quality) ==
    IF response_time_seconds # NoTime
    THEN [p EXCEPT !.interval_days =
             adjust_for_response_time(p.interval_days, response_time_seconds, quality)]
    ELSE p

\* lines 93-103: the next review date, stored and returned with the record
schedule_next_review(p, now2) ==
    LET next_review == p.last_review + timedelta_days(p.interval_days)
    IN  [progress |-> [p EXCEPT !.next_review = next_review, !.updated_at = now2],
         next_review |-> next_review]

\* calculate_next_review that grows the interval by the ease factor the
\* record had before this review
calculate_next_review_old_ease(p, quality_in, response_time_seconds, now1, now2) ==
    LET quality == validate_quality(quality_in)
        p2 == update_statistics(p, quality, now1)
        new_ease == update_ease_factor(p2, quality).ease_factor
    IN  { schedule_next_review(
              adjust_interval([p4 EXCEPT !.ease_factor = new_ease],
                              response_time_seconds, quality), now2) :
              p4 \in update_interval(p2, quality) }

\* calculate_next_review that dates the next review before the latency
\* adjustment of the interval
calculate_next_review_early_date(p, quality_in, response_time_seconds, now1, now2) ==
    LET quality == validate_quality(quality_in)
        p3 == update_ease_factor(update_statistics(p, quality, now1), quality)
    IN  { LET r == schedule_next_review(p4, now2)
          IN  [progress |-> adjust_interval(r.progress, response_time_seconds, quality),
               next_review |-> r.next_review] :
              p4 \in update_interval(p3, quality) }

\* The (progress, next_review) pairs one call can return; now1 and now2 are
\* its two readings of datetime.now() (last_review, updated_at).
calculate_next_review(p, quality_in, response_time_seconds, now1, now2) ==
    LET quality == validate_quality(quality_in)
        p3 == update_ease_factor(update_statistics(p, quality, now1), quality)
    IN  { schedule_next_review(adjust_interval(p4, response_time_seconds, quality), now2) :
              p4 \in update_interval(p3, quality) }

\* The records a stored history of reviews leaves behind: its qualities
\* replayed through calculate_next_review, without response times.
RECURSIVE Replay(_, _)
Replay(ps, h) ==
    IF h = <<>> THEN ps
    ELSE Replay(UNION { { res.progress :
                            res \in calculate_next_review(p, Head(h), NoTime, 0, 0) } :
                        p \in ps },
                Tail(h))

\* The records a stored history of timed reviews leaves behind: h is a
\* sequence of <<quality, response time>>, oldest first.
RECURSIVE ReplayTimed(_, _)
ReplayTimed(ps, h) ==
    IF h = <<>> THEN ps
    ELSE ReplayTimed(UNION { { res.progress :
                                 res \in calculate_next_review(p, Head(h)[1], Head(h)[2], 0, 0) } :
                             p \in ps },
                     Tail(h))

\* histories before a run of successes: none; three blackouts followed by
\* two slow passes (ease factor 1.3, repetitions 2, interval 6 * 0.8 = 4
\* days: the lowest ease factor and the shortest interval a record with two
\* repetitions can hold)
GrowthHistories ==
    {<<>>,
     <<<<0, NoTime>>, <<0, NoTime>>, <<0, NoTime>>, <<3, 121>>, <<3, 121>>>>}

\* ---- retention estimate and study order ---------------------------------
\* Retention rates and priority scores are floats of the source; here they
\* are whole millionths (1.0 -> 10^6).

\* math.exp(-d / 30.0) in millionths, for d = 0 .. 20 whole days
exp_decay ==
    <<1000000, 967216, 935507, 904837, 875173, 846482, 818731, 791890,
      765928, 740818, 716531, 693041, 670320, 648344, 627089, 606531,
      586646, 567414, 548812, 530819, 513417>>

\* timedelta.days of a difference of two timestamps
days(delta) == delta \div TicksPerDay

\* The k-th reading of datetime.now() an operation takes when it starts at
\* `start` and the clock advances by one tick after `ticked` readings.
reading(start, ticked, k) == IF k <= ticked THEN start ELSE start + 1

\* calculate_retention_rate without the final max(0.0, min(1.0, ...))
calculate_retention_rate_unclamped(p, now) ==
    IF p.total_reviews = 0 THEN 0
    ELSE LET recency_factor ==
                 IF p.last_review # NoTime
                 THEN exp_decay[days(now - p.last_review) + 1]
                 ELSE 0
             streak_factor == Min(p.streak * 100000, 200000)
         IN  (p.correct_reviews * (800000 + recency_factor \div 5))
                 \div p.total_reviews + streak_factor

\* lines 228-257; base_rate is accuracy / 100 = correct_reviews /
\* total_reviews (models.py 89-94), `now` the reading of line 246
calculate_retention_rate(p, now) ==
    IF p.total_reviews = 0 THEN 0
    ELSE LET recency_factor ==
                 IF p.last_review # NoTime
                 THEN exp_decay[days(now - p.last_review) + 1]
                 ELSE 0
             streak_factor == Min(p.streak * 100000, 200000)
             retention_rate ==
                 (p.correct_reviews * (800000 + recency_factor \div 5))
                     \div p.total_reviews + streak_factor
         IN  Max(0, Min(10^6, retention_rate))

\* priority_score without the cap of the overdue score
priority_score_uncapped(p, now1, now2, now3) ==
    LET overdue_score ==
            IF p.next_review # NoTime /\ p.next_review < now1
            THEN days(now2 - p.next_review) * 10
            ELSE 0
        retention_score == (10^6 - calculate_retention_rate(p, now3)) * 50
        streak_score == Max(0, 20 - p.streak)
    IN  overdue_score * 10^6 + retention_score + streak_score * 10^6

\* lines 269-290: the key of one (card, progress) pair; now1, now2 are the
\* readings of lines 273 and 274, now3 the one calculate_retention_rate takes
priority_score(p, now1, now2, now3) ==
    LET overdue_score ==
            IF p.next_review # NoTime /\ p.next_review < now1
            THEN Min(days(now2 - p.next_review) * 10, 100)
            ELSE 0
        retention_score == (10^6 - calculate_retention_rate(p, now3)) * 50
        streak_score == Max(0, 20 - p.streak)
    IN  overdue_score * 10^6 + retention_score + streak_score * 10^6

\* list reversal
RECURSIVE reversed(_)
reversed(s) ==
    IF s = <<>> THEN <<>> ELSE Append(reversed(Tail(s)), Head(s))

\* one step of an insertion sort on .key: x goes behind every element whose
\* key is not greater
RECURSIVE insort(_, _)
insort(s, x) ==
    IF s = <<>> THEN <<x>>
    ELSE IF s[Len(s)].key <= x.key THEN Append(s, x)
    ELSE Append(insort(SubSeq(s, 1, Len(s) - 1), x), s[Len(s)])

\* stable ascending sort on .key
RECURSIVE sort_ascending(_)
sort_ascending(s) ==
    IF s = <<>> THEN <<>>
    ELSE insort(sort_ascending(SubSeq(s, 1, Len(s) - 1)), s[Len(s)])

\* a descending sort that reverses the ascending one
sorted_reverse_flipped(keyed) == reversed(sort_ascending(keyed))

\* sorted(..., reverse=True) on decorated items: the list is reversed, sorted
\* ascending by a stable sort and reversed again
sorted_reverse(keyed) == reversed(sort_ascending(reversed(keyed)))

\* The first n pairs of the list, each with its key: sorted() computes the
\* keys in list order before it sorts, and each key takes three readings of
\* the clock.
RECURSIVE keyed_items(_, _, _, _)
keyed_items(cards, start, ticked, n) ==
    IF n = 0 THEN <<>>
    ELSE Append(keyed_items(cards, start, ticked, n - 1),
                [item |-> cards[n],
                 key |-> priority_score(cards[n].progress,
                                        reading(start, ticked, 3 * n - 2),
                                        reading(start, ticked, 3 * n - 1),
                                        reading(start, ticked, 3 * n))])

\* suggest_study_order sorting the caller's list in place
suggest_study_order_in_place(cards, start, ticked) ==
    LET keyed == keyed_items(cards, start, ticked, Len(cards))
        ordered == sorted_reverse(keyed)
    IN  [cards_progress |-> [i \in 1 .. Len(cards) |-> ordered[i].item],
         keys |-> [i \in 1 .. Len(cards) |-> keyed[i].key],
         ret |-> [i \in 1 .. Len(cards) |-> ordered[i].item]]

\* suggest_study_order scoring every item against its first reading of the
\* clock
suggest_study_order_one_now(cards, start, ticked) ==
    LET keyed == keyed_items(cards, start, 3 * Len(cards), Len(cards))
        ordered == sorted_reverse(keyed)
    IN  [cards_progress |-> cards,
         keys |-> [i \in 1 .. Len(cards) |-> keyed[i].key],
         ret |-> [i \in 1 .. Len(cards) |-> ordered[i].item]]

\* lines 259-292.  The result names the caller's list after the call, the
\* keys and the returned list.
suggest_study_order(cards, start, ticked) ==
    LET keyed == keyed_items(cards, start, ticked, Len(cards))
        ordered == sorted_reverse(keyed)
    IN  [cards_progress |-> cards,
         keys |-> [i \in 1 .. Len(cards) |-> keyed[i].key],
         ret |-> [i \in 1 .. Len(cards) |-> ordered[i].item]]

\* The record a stored progress row holds after reviews made on given days:
\* reviews is a sequence of <<quality, day>>, oldest first.
RECURSIVE ReviewedAt(_, _)
ReviewedAt(p, reviews) ==
    IF reviews = <<>> THEN p
    ELSE LET now == timedelta_days(Head(reviews)[2])
         IN  ReviewedAt(
                 (CHOOSE res \in calculate_next_review(p, Head(reviews)[1],
                                                       NoTime, now, now) : TRUE).progress,
                 Tail(reviews))

\* Progress rows of the cards of a study session: a model object never
\* stored (next_review None), and rows inserted on day 0 and reviewed since:
\* never; twice with success, last on day 0, 3, 5 or 8 (interval 6, retention
\* estimate 1.0, streak 2); failed once on day 9; failed on day 2 and
\* answered on day 8.  None has a third review, so each is one record.
StoredProgress ==
    [unsaved |-> UserProgress,
     created |-> [UserProgress EXCEPT !.next_review = 0],
     day0 |-> ReviewedAt([UserProgress EXCEPT !.next_review = 0], <<<<4, 0>>, <<4, 0>>>>),
     day3 |-> ReviewedAt([UserProgress EXCEPT !.next_review = 0], <<<<4, 0>>, <<4, 3>>>>),
     day5 |-> ReviewedAt([UserProgress EXCEPT !.next_review = 0], <<<<4, 0>>, <<4, 5>>>>),
     day8 |-> ReviewedAt([UserProgress EXCEPT !.next_review = 0], <<<<4, 0>>, <<4, 8>>>>),
     failed |-> ReviewedAt([UserProgress EXCEPT !.next_review = 0], <<<<1, 9>>>>),
     mixed |-> ReviewedAt([UserProgress EXCEPT !.next_review = 0], <<<<1, 2>>, <<4, 8>>>>)]

\* the card sets of the study sessions; a session lists them in any order
StudyDecks ==
    {<<"day0", "day5", "day3">>, <<"day0", "day0", "failed">>,
     <<"created", "unsaved", "mixed">>, <<"mixed", "day3">>, <<"created">>}

\* the first clock reading of a study session: one tick before day 11
RankStart == timedelta_days(11) - 1

\* ---- due cards --------------------------------------------------------------

\* UserProgress.is_due that is true only after next_review has passed
is_due_strict(p, now) ==
    IF p.next_review = NoTime THEN TRUE
    ELSE now > p.next_review

\* UserProgress.is_due (models.py 96-101); now is its reading of the clock
is_due(p, now) ==
    IF p.next_review = NoTime THEN TRUE
    ELSE now >= p.next_review

\* db.get_due_cards(limit): the rows of cards JOIN user_progress that pass
\* the WHERE clause, ORDER BY p.next_review ASC (NULL first), cut to limit
\* rows when a limit is given (None and 0 give none).  SQL leaves the order
\* of rows with equal next_review open: the result is any of the orderings.
get_due_cards(rows, now, limit) ==
    LET due == { i \in 1 .. Len(rows) :
                   /\ rows[i].is_active
                   /\ \/ rows[i].progress.next_review = NoTime
                      \/ rows[i].progress.next_review <= now }
        n == Cardinality(due)
        orders == { f \in [1 .. n -> due] :
                      /\ \A j, k \in 1 .. n : j < k => f[j] # f[k]
                      /\ \A k \in 1 .. n - 1 :
                             rows[f[k]].progress.next_review
                                 <= rows[f[k + 1]].progress.next_review }
        m == IF limit = 0 THEN n ELSE Min(limit, n)
    IN  { [k \in 1 .. m |-> rows[f[k]]] : f \in orders }

\* the cards in storage when due cards are looked up: two decks of three
\* active cards with their progress rows.  At RankStart the card of day 5
\* is one tick from its next review and the card of day 8 three days.
DueDecks == {<<"day0", "day5", "day8">>, <<"created", "mixed", "failed">>}

\* max_cards of a study session (0: no limit given)
DueLimits == {0, 2}

\* the clock runs on for a day after RankStart + MaxClock, past the next
\* review date of a card reviewed at RankStart with an interval of one day
DueHorizon == RankStart + MaxClock + timedelta_days(1)

\* ---- creation of progress rows ----------------------------------------------

\* the cards whose progress is asked for
Cards == {1, 2}

\* INSERT INTO user_progress (card_id, next_review) that dates the first
\* review one day after the insertion
insert_user_progress_next_day(card_id, now) ==
    [card |-> card_id, is_active |-> TRUE,
     progress |-> [ease_factor |-> 250,
                   interval_days |-> 1,
                   repetitions |-> 0,
                   last_review |-> NoTime,
                   next_review |-> now + timedelta_days(1),
                   total_reviews |-> 0,
                   correct_reviews |-> 0,
                   streak |-> 0,
                   updated_at |-> now]]

\* INSERT INTO user_progress (card_id, next_review) VALUES (?, now): the new
\* row, joined with its card; the other columns take the defaults of the
\* table (database.py 77-95)
insert_user_progress(card_id, now) ==
    [card |-> card_id, is_active |-> TRUE,
     progress |-> [ease_factor |-> 250,
                   interval_days |-> 1,
                   repetitions |-> 0,
                   last_review |-> NoTime,
                   next_review |-> now,
                   total_reviews |-> 0,
                   correct_reviews |-> 0,
                   streak |-> 0,
                   updated_at |-> now]]

\* _row_to_progress: the UserProgress object built from the columns of a row
row_to_progress(row) ==
    [ease_factor |-> row.progress.ease_factor,
     interval_days |-> row.progress.interval_days,
     repetitions |-> row.progress.repetitions,
     last_review |-> row.progress.last_review,
     next_review |-> row.progress.next_review,
     total_reviews |-> row.progress.total_reviews,
     correct_reviews |-> row.progress.correct_reviews,
     streak |-> row.progress.streak,
     updated_at |-> row.progress.updated_at]

\* the ids of the user_progress rows of a card, in rowid order
progress_rows(rows, card_id) ==
    { i \in 1 .. Len(rows) : rows[i].card = card_id }

\* a session outside get_or_create_progress
NoRequest == [pc |-> "idle", card_id |-> 0]

\* ---- the study session of a browser session ------------------------------------

\* st.session_state after start_study_session (app.py 462-471): a new
\* StudySession, study_index 0, no evaluation on display
StudyState ==
    [study_index |-> 0, evaluation_complete |-> FALSE,
     cards_reviewed |-> 0, correct_answers |-> 0]

\* evaluate_answer counting every answer as correct
count_answer_all_correct(session, is_correct) ==
    [session EXCEPT !.cards_reviewed = @ + 1,
                    !.correct_answers = @ + 1]

\* evaluate_answer, lines 618-622: the counters of the StudySession
count_answer(session, is_correct) ==
    [session EXCEPT !.cards_reviewed = @ + 1,
                    !.correct_answers = IF is_correct THEN @ + 1 ELSE @]

\* ---- the application's sessions ------------------------------------------
\* Streamlit runs the script of every browser session in a thread of its
\* own; all of them use the one db object, each db call in a connection and
\* transaction of its own.
Sessions == {1, 2}

\* grader verdicts (is_correct, confidence) and response times of the
\* answers the sessions evaluate
SessionVerdicts == {<<TRUE, 95>>, <<FALSE, 20>>}
SessionResponseTimes == {4, 30}

\* a session between two handlers: no locals, the counters of a new
\* StudySession
NoHandler ==
    [pc |-> "idle", loaded |-> UserProgress, quality |-> 0,
     response_time |-> NoTime, is_correct |-> FALSE,
     cards_reviewed |-> 0, correct_answers |-> 0]

\* generate_questions_for_card writing a new record over the row
generated_progress_reset(loaded, now) ==
    [UserProgress EXCEPT !.next_review = now, !.updated_at = now]

\* app.py 373-376 and database.py 287-308: the row generate_questions_for_card
\* writes back for one generated question
generated_progress(loaded, now) ==
    [loaded EXCEPT !.next_review = now, !.updated_at = now]

\* no call made yet
NoCall ==
    [op |-> "none", before |-> UserProgress, quality |-> 0,
     response_time |-> NoTime, now |-> NoTime,
     is_correct |-> FALSE, confidence |-> 0, ret |-> NoTime]

\* A new progress record as the model class builds it (next_review None) or
\* as get_or_create_progress inserts it (next_review = now), or a record
\* that earlier reviews left in storage.
Init ==
    /\ clock = 0
    /\ \E nr \in {NoTime, 0}, h \in Histories :
           progress \in Replay({[UserProgress EXCEPT !.next_review = nr]}, h)
    /\ call = NoCall
    /\ nreviews = 0
    /\ cards_progress = <<>>
    /\ sessions = [s \in Sessions |-> NoHandler]

\* the wall clock advances
Tick ==
    /\ clock < MaxClock
    /\ clock' = clock + 1
    /\ UNCHANGED <<progress, call, nreviews, cards_progress, sessions>>

\* srs.quality_from_evaluation(is_correct, confidence, response_time)
QualityFromEvaluation ==
    \E is_correct \in BOOLEAN, confidence \in Confidences,
       response_time \in EvaluationTimes \cup {NoTime} :
        /\ call' = [op |-> "quality_from_evaluation",
                    before |-> progress, now |-> clock,
                    quality |-> quality_from_evaluation(is_correct, confidence, response_time),
                    response_time |-> response_time,
                    is_correct |-> is_correct, confidence |-> confidence,
                    ret |-> quality_from_evaluation(is_correct, confidence, response_time)]
        /\ UNCHANGED <<progress, clock, nreviews, cards_progress, sessions>>

\* srs.calculate_next_review(progress, quality, response_time).  The call
\* reads the clock for last_review and again, a few statements later, for
\* updated_at; the two readings fall on the same tick.
CalculateNextReview ==
    \E quality \in QualityInputs,
       response_time \in ResponseTimes \cup {NoTime} :
        /\ nreviews < MaxReviews
        /\ nreviews' = nreviews + 1
        /\ \E res \in calculate_next_review(progress, quality, response_time,
                                            clock, clock) :
            /\ progress' = res.progress
            /\ call' = [op |-> "calculate_next_review",
                        before |-> progress, now |-> clock,
                        quality |-> quality, response_time |-> response_time,
                        is_correct |-> FALSE, confidence |-> 0,
                        ret |-> res.next_review]
        /\ UNCHANGED <<clock, cards_progress, sessions>>

Next ==
    \/ Tick
    \/ CalculateNextReview

Spec == Init /\ [][Next]_vars

\* quality_from_evaluation applied to every grader verdict
NextQuality == QualityFromEvaluation

SpecQuality == Init /\ [][NextQuality]_vars

\* ---- timed reviews ----------------------------------------------------------

\* srs.calculate_next_review(progress, quality, response_time) as
\* evaluate_answer calls it: a quality of quality_from_evaluation, which lies
\* in 0..5, and the measured response time, at every edge of the latency
\* bands.
CalculateNextReviewTimed ==
    \E quality \in 0 .. 5,
       response_time \in LatencyTimes \cup {NoTime} :
        /\ nreviews < MaxUpdates
        /\ nreviews' = nreviews + 1
        /\ \E res \in calculate_next_review(progress, quality, response_time,
                                            clock, clock) :
            /\ progress' = res.progress
            /\ call' = [op |-> "calculate_next_review",
                        before |-> progress, now |-> clock,
                        quality |-> quality, response_time |-> response_time,
                        is_correct |-> FALSE, confidence |-> 0,
                        ret |-> res.next_review]
        /\ UNCHANGED <<clock, cards_progress, sessions>>

NextLatency == CalculateNextReviewTimed

SpecLatency == Init /\ [][NextLatency]_vars

\* ---- a run of successful reviews ----------------------------------------------

InitGrowth ==
    /\ clock = 0
    /\ \E h \in GrowthHistories :
           progress \in ReplayTimed({[UserProgress EXCEPT !.next_review = 0]}, h)
    /\ call = NoCall
    /\ nreviews = 0
    /\ cards_progress = <<>>
    /\ sessions = [s \in Sessions |-> NoHandler]

\* srs.calculate_next_review(progress, quality) with a quality of 3, 4 or 5
\* and no response time
SuccessfulReview ==
    \E quality \in 3 .. 5 :
        /\ nreviews < MaxSuccesses
        /\ nreviews' = nreviews + 1
        /\ \E res \in calculate_next_review(progress, quality, NoTime, clock, clock) :
            /\ progress' = res.progress
            /\ call' = [op |-> "calculate_next_review",
                        before |-> progress, now |-> clock,
                        quality |-> quality, response_time |-> NoTime,
                        is_correct |-> FALSE, confidence |-> 0,
                        ret |-> res.next_review]
        /\ UNCHANGED <<clock, cards_progress, sessions>>

NextGrowth == SuccessfulReview

\* the learner keeps reviewing: a review that is possible is made
SpecGrowth == InitGrowth /\ [][NextGrowth]_vars /\ WF_vars(SuccessfulReview)

\* ---- the study planner ----------------------------------------------------

\* A study session starts (app.py 445-460): the (card, progress) pairs of one
\* deck, in some order; a card is numbered by its place in that list.
InitRank ==
    /\ clock = RankStart
    /\ progress = UserProgress
    /\ call = NoCall
    /\ nreviews = 0
    /\ sessions = [s \in Sessions |-> NoHandler]
    /\ \E deck \in StudyDecks :
           \E f \in Permutations(1 .. Len(deck)) :
               cards_progress =
                   [i \in 1 .. Len(deck) |->
                       [card |-> i, progress |-> StoredProgress[deck[f[i]]]]]

\* time passes between two calls
Wait ==
    /\ clock < RankStart + MaxClock
    /\ clock' = clock + 1
    /\ UNCHANGED <<progress, call, nreviews, cards_progress, sessions>>

\* srs.suggest_study_order(cards_progress); the clock may advance by a tick
\* between any two of the readings the call takes
SuggestStudyOrder ==
    \E ticked \in 0 .. 3 * Len(cards_progress) :
        LET res == suggest_study_order(cards_progress, clock, ticked)
        IN  /\ ticked < 3 * Len(cards_progress) => clock < RankStart + MaxClock
            /\ cards_progress' = res.cards_progress
            /\ clock' = reading(clock, ticked, 3 * Len(cards_progress))
            /\ call' = [op |-> "suggest_study_order",
                        before |-> cards_progress, now |-> clock,
                        ticked |-> ticked, keys |-> res.keys, ret |-> res.ret]
            /\ UNCHANGED <<progress, nreviews, sessions>>

\* srs.calculate_retention_rate(progress) for one pair of the list
CalculateRetentionRate ==
    \E i \in 1 .. Len(cards_progress) :
        /\ call' = [op |-> "calculate_retention_rate",
                    before |-> cards_progress, now |-> clock, card |-> i,
                    ret |-> calculate_retention_rate(cards_progress[i].progress, clock)]
        /\ UNCHANGED <<progress, clock, nreviews, cards_progress, sessions>>

\* srs.calculate_next_review on the progress object of one pair of the list:
\* a failed (1) or a good (4) answer
UpdateCard ==
    \E i \in 1 .. Len(cards_progress), quality \in {1, 4} :
        /\ nreviews < MaxUpdates
        /\ nreviews' = nreviews + 1
        /\ \E res \in calculate_next_review(cards_progress[i].progress, quality,
                                            NoTime, clock, clock) :
            /\ cards_progress' = [cards_progress EXCEPT ![i].progress = res.progress]
            /\ call' = [op |-> "calculate_next_review",
                        before |-> cards_progress[i].progress, now |-> clock,
                        quality |-> quality, response_time |-> NoTime,
                        is_correct |-> FALSE, confidence |-> 0,
                        ret |-> res.next_review]
        /\ UNCHANGED <<progress, clock, sessions>>

NextRank ==
    \/ Wait
    \/ SuggestStudyOrder
    \/ CalculateRetentionRate
    \/ UpdateCard

SpecRank == InitRank /\ [][NextRank]_vars

\* ---- due cards in storage ---------------------------------------------------

\* cards JOIN user_progress, one progress row per card, every card active
InitDue ==
    /\ clock = RankStart
    /\ progress = UserProgress
    /\ call = NoCall
    /\ nreviews = 0
    /\ sessions = [s \in Sessions |-> NoHandler]
    /\ \E deck \in DueDecks :
           cards_progress =
               [i \in 1 .. Len(deck) |->
                   [card |-> i, is_active |-> TRUE,
                    progress |-> StoredProgress[deck[i]]]]

\* time passes
WaitDue ==
    /\ clock < DueHorizon
    /\ clock' = clock + 1
    /\ UNCHANGED <<progress, call, nreviews, cards_progress, sessions>>

\* db.delete_card(card_id): the soft delete
DeleteCard ==
    \E i \in 1 .. Len(cards_progress) :
        /\ cards_progress[i].is_active
        /\ cards_progress' = [cards_progress EXCEPT ![i].is_active = FALSE]
        /\ call' = [op |-> "delete_card", before |-> cards_progress,
                    now |-> clock, card |-> i, ret |-> TRUE]
        /\ UNCHANGED <<progress, clock, nreviews, sessions>>

\* db.get_due_cards(limit)
GetDueCards ==
    \E limit \in DueLimits :
        \E results \in get_due_cards(cards_progress, clock, limit) :
            /\ call' = [op |-> "get_due_cards", before |-> cards_progress,
                        now |-> clock, limit |-> limit, ret |-> results]
            /\ UNCHANGED <<progress, clock, nreviews, cards_progress, sessions>>

\* progress.is_due on the progress object of one card
IsDue ==
    \E i \in 1 .. Len(cards_progress) :
        /\ call' = [op |-> "is_due", before |-> cards_progress,
                    now |-> clock, card |-> i,
                    ret |-> is_due(cards_progress[i].progress, clock)]
        /\ UNCHANGED <<progress, clock, nreviews, cards_progress, sessions>>

NextDue ==
    \/ WaitDue
    \/ DeleteCard
    \/ UpdateCard
    \/ GetDueCards
    \/ IsDue

SpecDue == InitDue /\ [][NextDue]_vars

\* ---- get_or_create_progress ---------------------------------------------------

\* The cards exist (create_card has committed, app.py 181); user_progress is
\* empty.  cards_progress holds the rows of user_progress in rowid order, a
\* row's id being its place.
InitCreate ==
    /\ clock = 0
    /\ progress = UserProgress
    /\ call = NoCall
    /\ nreviews = 0
    /\ cards_progress = <<>>
    /\ sessions = [s \in Sessions |-> NoRequest]

\* db.get_or_create_progress(card_id), lines 264-271: the SELECT by card_id
\* in a connection of its own.  A row found is returned (fetchone: the row
\* of the lowest id, the scan following idx_user_progress_card_id);
\* otherwise the call goes on to the INSERT.
GetOrCreateProgressSelect ==
    \E s \in Sessions, card_id \in Cards :
        /\ sessions[s].pc = "idle"
        /\ LET found == progress_rows(cards_progress, card_id)
           IN  IF found # {}
               THEN LET id == CHOOSE i \in found : \A j \in found : i <= j
                    IN  /\ call' = [op |-> "get_or_create_progress",
                                    before |-> cards_progress, now |-> clock,
                                    session |-> s, card |-> card_id,
                                    created |-> FALSE, id |-> id,
                                    ret |-> row_to_progress(cards_progress[id])]
                        /\ UNCHANGED sessions
               ELSE /\ sessions' = [sessions EXCEPT ![s] =
                                        [pc |-> "insert", card_id |-> card_id]]
                    /\ UNCHANGED call
        /\ UNCHANGED <<progress, clock, nreviews, cards_progress>>

\* lines 272-285: INSERT, commit and the SELECT of the row by lastrowid.
\* Nothing deletes a row or changes its id, so the second SELECT returns the
\* row just inserted.
GetOrCreateProgressInsert ==
    \E s \in Sessions :
        /\ sessions[s].pc = "insert"
        /\ cards_progress' =
               Append(cards_progress,
                      insert_user_progress(sessions[s].card_id, clock))
        /\ call' = [op |-> "get_or_create_progress",
                    before |-> cards_progress, now |-> clock,
                    session |-> s, card |-> sessions[s].card_id,
                    created |-> TRUE, id |-> Len(cards_progress) + 1,
                    ret |-> row_to_progress(
                                insert_user_progress(sessions[s].card_id, clock))]
        /\ sessions' = [sessions EXCEPT ![s] = NoRequest]
        /\ UNCHANGED <<progress, clock, nreviews>>

NextCreate ==
    \/ Tick
    \/ GetOrCreateProgressSelect
    \/ GetOrCreateProgressInsert

SpecCreate == InitCreate /\ [][NextCreate]_vars

\* ---- review and question generation on the stored row ---------------------

\* the user_progress row of the card, inserted at start-up
InitSessions ==
    /\ clock = 0
    /\ progress = [UserProgress EXCEPT !.next_review = 0]
    /\ call = NoCall
    /\ nreviews = 0
    /\ cards_progress = <<>>
    /\ sessions = [s \in Sessions |-> NoHandler]

\* evaluate_answer, lines 597-612: the grader's verdict, the quality and
\* db.get_or_create_progress(card.id), which finds the row
EvaluateAnswerLoad ==
    \E s \in Sessions, verdict \in SessionVerdicts,
       response_time \in SessionResponseTimes :
        /\ sessions[s].pc = "idle"
        /\ nreviews + Cardinality({t \in Sessions : sessions[t].pc = "evaluating"})
               < MaxEvaluations
        /\ sessions' = [sessions EXCEPT ![s] =
               [@ EXCEPT !.pc = "evaluating",
                         !.loaded = progress,
                         !.quality = quality_from_evaluation(verdict[1], verdict[2],
                                                             response_time),
                         !.response_time = response_time,
                         !.is_correct = verdict[1]]]
        /\ UNCHANGED <<progress, clock, call, nreviews, cards_progress>>

\* evaluate_answer, lines 613-620: srs.calculate_next_review on the loaded
\* record, db.update_progress and the counters of the session
EvaluateAnswerPersist ==
    \E s \in Sessions :
        /\ sessions[s].pc = "evaluating"
        /\ \E res \in calculate_next_review(sessions[s].loaded, sessions[s].quality,
                                            sessions[s].response_time, clock, clock) :
            /\ progress' = res.progress
            /\ call' = [op |-> "evaluate_answer", session |-> s,
                        before |-> progress, loaded |-> sessions[s].loaded,
                        now |-> clock, quality |-> sessions[s].quality,
                        response_time |-> sessions[s].response_time,
                        is_correct |-> sessions[s].is_correct,
                        ret |-> res.next_review]
        /\ nreviews' = nreviews + 1
        /\ sessions' = [sessions EXCEPT ![s] =
               [NoHandler EXCEPT
                    !.cards_reviewed = sessions[s].cards_reviewed + 1,
                    !.correct_answers = sessions[s].correct_answers +
                        (IF sessions[s].is_correct THEN 1 ELSE 0)]]
        /\ UNCHANGED <<clock, cards_progress>>

\* generate_questions_for_card, line 373, for one generated question:
\* db.get_or_create_progress(card.id)
GenerateQuestionLoad ==
    \E s \in Sessions :
        /\ sessions[s].pc = "idle"
        /\ sessions' = [sessions EXCEPT ![s] =
               [@ EXCEPT !.pc = "generating", !.loaded = progress]]
        /\ UNCHANGED <<progress, clock, call, nreviews, cards_progress>>

\* generate_questions_for_card, lines 375-376: next_review = now and
\* db.update_progress
GenerateQuestionPersist ==
    \E s \in Sessions :
        /\ sessions[s].pc = "generating"
        /\ progress' = generated_progress(sessions[s].loaded, clock)
        /\ call' = [op |-> "generate_questions", session |-> s,
                    before |-> progress, loaded |-> sessions[s].loaded,
                    now |-> clock, ret |-> clock]
        /\ sessions' = [sessions EXCEPT ![s] =
               [@ EXCEPT !.pc = "idle", !.loaded = UserProgress]]
        /\ UNCHANGED <<clock, nreviews, cards_progress>>

NextSessions ==
    \/ Tick
    \/ EvaluateAnswerLoad
    \/ EvaluateAnswerPersist
    \/ GenerateQuestionLoad
    \/ GenerateQuestionPersist

SpecSessions == InitSessions /\ [][NextSessions]_vars

\* ---- answering and skipping the cards of a study session ------------------------

\* Two cards with the progress rows created with them; each browser session
\* has started a study session on both (study_cards lists the cards in the
\* order of cards_progress; evaluate_answer loads the row of the card).
InitStudy ==
    /\ clock = 0
    /\ progress = UserProgress
    /\ call = NoCall
    /\ nreviews = 0
    /\ cards_progress = [i \in 1 .. 2 |-> insert_user_progress(i, 0)]
    /\ sessions = [s \in Sessions |-> StudyState]

\* the answer form is submitted (app.py 563-565) and evaluate_answer runs:
\* verdict, quality, the row of the current card loaded, rescheduled and
\* written back, the session counters, evaluation_complete
SubmitAnswer ==
    \E s \in Sessions, verdict \in SessionVerdicts,
       response_time \in SessionResponseTimes :
        LET i == sessions[s].study_index + 1
            quality == quality_from_evaluation(verdict[1], verdict[2], response_time)
        IN  /\ i <= Len(cards_progress)
            /\ ~sessions[s].evaluation_complete
            /\ nreviews < MaxEvaluations
            /\ nreviews' = nreviews + 1
            /\ \E res \in calculate_next_review(row_to_progress(cards_progress[i]),
                                                quality, response_time, clock, clock) :
                /\ cards_progress' = [cards_progress EXCEPT ![i].progress = res.progress]
                /\ call' = [op |-> "evaluate_answer", session |-> s, card |-> i,
                            before |-> row_to_progress(cards_progress[i]),
                            before_session |-> sessions[s],
                            rows |-> cards_progress,
                            now |-> clock, quality |-> quality,
                            response_time |-> response_time,
                            is_correct |-> verdict[1], confidence |-> verdict[2],
                            ret |-> res.progress]
            /\ sessions' = [sessions EXCEPT ![s] =
                   [count_answer(@, verdict[1]) EXCEPT !.evaluation_complete = TRUE]]
            /\ UNCHANGED <<progress, clock>>

\* "Continue to Next Card" under an evaluation result (app.py 663-667)
ContinueToNextCard ==
    \E s \in Sessions :
        /\ sessions[s].study_index < Len(cards_progress)
        /\ sessions[s].evaluation_complete
        /\ sessions' = [sessions EXCEPT ![s] =
               [@ EXCEPT !.study_index = @ + 1, !.evaluation_complete = FALSE]]
        /\ call' = [op |-> "continue_to_next_card", session |-> s,
                    before_session |-> sessions[s], rows |-> cards_progress,
                    now |-> clock]
        /\ UNCHANGED <<progress, clock, nreviews, cards_progress>>

\* "Skip Card" and skip_current_card (app.py 570-571, 670-673); the button
\* is shown under the question and under an evaluation result alike
SkipCurrentCard ==
    \E s \in Sessions :
        /\ sessions[s].study_index < Len(cards_progress)
        /\ sessions' = [sessions EXCEPT ![s] = [@ EXCEPT !.study_index = @ + 1]]
        /\ call' = [op |-> "skip_current_card", session |-> s,
                    before_session |-> sessions[s], rows |-> cards_progress,
                    now |-> clock]
        /\ UNCHANGED <<progress, clock, nreviews, cards_progress>>

\* "Previous Q" / "Next Q" (app.py 533-547): another question of the same
\* card, the evaluation result cleared
NavigateQuestion ==
    \E s \in Sessions :
        /\ sessions[s].study_index < Len(cards_progress)
        /\ sessions[s].evaluation_complete
        /\ sessions' = [sessions EXCEPT ![s] = [@ EXCEPT !.evaluation_complete = FALSE]]
        /\ call' = [op |-> "navigate_question", session |-> s,
                    before_session |-> sessions[s], rows |-> cards_progress,
                    now |-> clock]
        /\ UNCHANGED <<progress, clock, nreviews, cards_progress>>

NextStudy ==
    \/ SubmitAnswer
    \/ ContinueToNextCard
    \/ SkipCurrentCard
    \/ NavigateQuestion

SpecStudy == InitStudy /\ [][NextStudy]_vars

TypeOK ==
    /\ clock \in 0 .. MaxClock
    /\ nreviews \in 0 .. MaxReviews
    /\ progress.total_reviews >= nreviews
    /\ progress.interval_days \in Int
    /\ progress.ease_factor \in Int

\* ---- properties -----------------------------------------------------------

\* the last step was a call of calculate_next_review
Reviewed == call.op = "calculate_next_review"

\* the quality of the last call, brought into 0..5
ClampedQuality ==
    IF call.quality < 0 THEN 0 ELSE IF call.quality > 5 THEN 5 ELSE call.quality

\* C1: after any sequence of calculate_next_review calls the stored ease
\* factor lies within [1.3, 4.0].
C1_EaseWithinBounds ==
    /\ progress.ease_factor >= SR_EASE_FACTOR_MIN
    /\ progress.ease_factor <= SR_EASE_FACTOR_MAX

\* a review whose unclamped new ease factor falls below 1.3
C1_Witness ==
    /\ Reviewed
    /\ calculate_ease_factor(call.before.ease_factor, ClampedQuality) < SR_EASE_FACTOR_MIN
    /\ progress.ease_factor = SR_EASE_FACTOR_MIN

\* C2: interval_days is at least 1 after every calculate_next_review call,
\* for every quality and with or without a response time.
C2_IntervalAtLeastOne == progress.interval_days >= 1

\* a one-day interval reviewed with a very slow response: int(1 * 0.8) is 0
C2_Witness ==
    /\ Reviewed
    /\ call.response_time # NoTime
    /\ call.response_time > 2 * expected_times(ClampedQuality)
    /\ call.before.repetitions = 0
    /\ progress.interval_days = 1

\* C3: a review of clamped quality below 3 leaves repetitions = 0 and
\* interval_days = 1, whatever the state before and the response time.
C3_LapseResets ==
    (Reviewed /\ ClampedQuality < 3)
        => (progress.repetitions = 0 /\ progress.interval_days = 1)

\* a lapse of a record with a long interval, answered fast (multiplier 1.2)
C3_Witness ==
    /\ Reviewed
    /\ ClampedQuality < 3
    /\ call.before.repetitions >= 2
    /\ call.before.interval_days > 1
    /\ call.response_time # NoTime
    /\ call.response_time * 2 < expected_times(ClampedQuality)

\* C4: a review of quality >= 3 raises the streak by exactly 1, a review of
\* quality < 3 sets it to 0.
C4_Streak ==
    Reviewed =>
        IF ClampedQuality >= 3
        THEN progress.streak = call.before.streak + 1
        ELSE progress.streak = 0

\* an incorrect answer that ends a streak
C4_Witness ==
    /\ Reviewed
    /\ ClampedQuality < 3
    /\ call.before.streak >= 2

\* C5: after a review repetitions is 0 exactly when quality < 3; with
\* quality >= 3 it is the previous value plus 1.
C5_Repetitions ==
    Reviewed =>
        /\ (progress.repetitions = 0) <=> (ClampedQuality < 3)
        /\ ClampedQuality >= 3 =>
               progress.repetitions = call.before.repetitions + 1

\* a review of quality exactly 3 of a record with repetitions
C5_Witness ==
    /\ Reviewed
    /\ ClampedQuality = 3
    /\ call.before.repetitions >= 1

\* C6: correct_reviews <= total_reviews in every state; a review adds 1 to
\* total_reviews, and 1 to correct_reviews exactly when quality >= 3.
C6_Counters ==
    /\ progress.correct_reviews <= progress.total_reviews
    /\ Reviewed =>
        /\ progress.total_reviews = call.before.total_reviews + 1
        /\ progress.correct_reviews =
               call.before.correct_reviews + (IF ClampedQuality >= 3 THEN 1 ELSE 0)

\* an incorrect review of a record all of whose reviews were correct
C6_Witness ==
    /\ Reviewed
    /\ ClampedQuality < 3
    /\ call.before.total_reviews >= 1
    /\ call.before.correct_reviews = call.before.total_reviews

\* C7: with quality >= 3 and no response time the new interval is 1 at the
\* first repetition, 6 at the second, and from the third on
\* min(int(previous interval * new ease factor), max interval), the new ease
\* factor being the one this review stored.
C7_IntervalStep ==
    (Reviewed /\ ClampedQuality >= 3 /\ call.response_time = NoTime) =>
        LET reps == call.before.repetitions + 1
        IN  IF reps = 1 THEN progress.interval_days = 1
            ELSE IF reps = 2 THEN progress.interval_days = 6
            ELSE progress.interval_days \in
                    { Min(f, SR_MAX_INTERVAL) :
                          f \in int_of_product(call.before.interval_days,
                                               progress.ease_factor) }

\* a third or later repetition whose review changed the ease factor
C7_Witness ==
    /\ Reviewed
    /\ ClampedQuality >= 3
    /\ call.response_time = NoTime
    /\ call.before.repetitions >= 2
    /\ progress.ease_factor # call.before.ease_factor
    /\ progress.interval_days > call.before.interval_days

\* C8: from {ease 2.5, interval 1, repetitions 0} a review of quality 4 at
\* time T without a response time gives repetitions 1, interval 1 and
\* next_review = T + 1 day; the same review of the resulting record gives
\* repetitions 2 and interval 6.
C8_FirstTwoReviews ==
    (/\ Reviewed
     /\ call.quality = 4
     /\ call.response_time = NoTime
     /\ call.before.ease_factor = 250
     /\ call.before.interval_days = 1) =>
        /\ call.before.repetitions = 0 =>
            /\ progress.repetitions = 1
            /\ progress.interval_days = 1
            /\ progress.next_review = call.now + 1 * TicksPerDay
        /\ call.before.repetitions = 1 =>
            /\ progress.repetitions = 2
            /\ progress.interval_days = 6

\* the second of two quality-4 reviews of a new record
C8_Witness ==
    /\ Reviewed
    /\ call.quality = 4
    /\ call.response_time = NoTime
    /\ call.before.ease_factor = 250
    /\ call.before.interval_days = 1
    /\ call.before.repetitions = 1
    /\ call.before.total_reviews = 1
    /\ call.before.next_review = call.before.last_review + 1 * TicksPerDay

\* C9: after a call at time now, last_review = now, next_review =
\* last_review + interval_days days for the final interval, and the returned
\* timestamp is the stored next_review.
C9_Schedule ==
    Reviewed =>
        /\ progress.last_review = call.now
        /\ progress.next_review =
               progress.last_review + progress.interval_days * TicksPerDay
        /\ call.ret = progress.next_review

\* a review, later than the one before it, whose interval the latency
\* adjustment changed
C9_Witness ==
    /\ Reviewed
    /\ call.response_time # NoTime
    /\ call.before.last_review # NoTime
    /\ call.now > call.before.last_review
    /\ ClampedQuality >= 3
    /\ call.before.repetitions = 1
    /\ progress.interval_days # 6

\* C10: quality_from_evaluation returns an integer in 0..5 that is >= 3
\* exactly when is_correct holds (checked under SpecQuality).
C10_QualityMatchesVerdict ==
    call.op = "quality_from_evaluation" =>
        /\ call.ret \in 0 .. 5
        /\ (call.ret >= 3) <=> call.is_correct

\* a correct, unsure and slow answer: 3 + 0 - 1 is raised to 3
C10_Witness ==
    /\ call.op = "quality_from_evaluation"
    /\ call.is_correct
    /\ call.confidence < 80
    /\ call.response_time # NoTime
    /\ call.response_time > 12
    /\ call.ret = 3

\* C11: an incorrect answer maps to 0 when confidence < 0.3, to 1 when
\* 0.3 <= confidence < 0.6 and to 2 when confidence >= 0.6, whatever the
\* response time (checked under SpecQuality).
C11_IncorrectBands ==
    (call.op = "quality_from_evaluation" /\ ~call.is_correct) =>
        call.ret = (IF call.confidence < 30 THEN 0
                    ELSE IF call.confidence < 60 THEN 1
                    ELSE 2)

\* an incorrect answer of confidence exactly 0.3, with a response time
C11_Witness ==
    /\ call.op = "quality_from_evaluation"
    /\ ~call.is_correct
    /\ call.confidence = 30
    /\ call.response_time # NoTime
    /\ call.ret = 1

\* C12: a correct answer maps to clamp(3 + c + t, 3, 5) with c = 2 for
\* confidence >= 0.9, 1 for 0.8 <= confidence < 0.9, else 0, and t = +1 for
\* a response time <= 3.0 s, 0 up to 6.0 s, -1 above, 0 when absent; so
\* (true, 0.95, 2.0 s) gives 5 (checked under SpecQuality).
C12_CorrectScore ==
    (call.op = "quality_from_evaluation" /\ call.is_correct) =>
        LET c == IF call.confidence >= 90 THEN 2
                 ELSE IF call.confidence >= 80 THEN 1 ELSE 0
            t == IF call.response_time = NoTime THEN 0
                 ELSE IF call.response_time <= 6 THEN 1
                 ELSE IF call.response_time <= 12 THEN 0
                 ELSE 0 - 1
            sum == 3 + c + t
        IN  /\ call.ret = (IF sum < 3 THEN 3 ELSE IF sum > 5 THEN 5 ELSE sum)
            /\ (call.confidence = 95 /\ call.response_time = 4) => call.ret = 5

\* the call (true, 0.95, 2.0 s): 3 + 2 + 1 is lowered to 5
C12_Witness ==
    /\ call.op = "quality_from_evaluation"
    /\ call.is_correct
    /\ call.confidence = 95
    /\ call.response_time = 4
    /\ call.ret = 5

\* C17: calculate_next_review has no error outcome: in every state a call
\* can start from it returns a result for every quality and response time,
\* and a quality above 5 (below 0) gives exactly what quality 5 (quality 0)
\* gives.
C17_QualityClamped ==
    /\ nreviews < MaxReviews =>
           \A q \in QualityInputs, rt \in ResponseTimes \cup {NoTime} :
               calculate_next_review(progress, q, rt, clock, clock) # {}
    /\ (Reviewed /\ call.quality > 5) =>
           [progress |-> progress, next_review |-> call.ret] \in
               calculate_next_review(call.before, 5, call.response_time,
                                     call.now, call.now)
    /\ (Reviewed /\ call.quality < 0) =>
           [progress |-> progress, next_review |-> call.ret] \in
               calculate_next_review(call.before, 0, call.response_time,
                                     call.now, call.now)

\* a review of quality -1 of a record with repetitions, with a response time
C17_Witness ==
    /\ Reviewed
    /\ call.quality < 0
    /\ call.before.repetitions >= 1
    /\ call.response_time # NoTime
    /\ progress.repetitions = 0

\* the last step was a call of suggest_study_order
Ranked == call.op = "suggest_study_order"

\* the k-th clock reading of the last suggest_study_order call
ReadingOfCall(k) == reading(call.now, call.ticked, k)

\* whole days by which `now` exceeds the next review of p (0 if not yet due
\* or absent)
DaysOverdue(p, now) ==
    IF p.next_review # NoTime /\ p.next_review < now
    THEN (now - p.next_review) \div TicksPerDay
    ELSE 0

C14_StableOrder ==
    Ranked =>
        \A a \in 1 .. Len(call.ret) : \A b \in 1 .. Len(call.ret) :
            (a < b /\ call.keys[call.ret[a].card] = call.keys[call.ret[b].card])
                => call.ret[a].card < call.ret[b].card

\* two pairs of equal total behind which a pair of higher total stood
C14_Witness ==
    /\ Ranked
    /\ Len(call.ret) = 3
    /\ call.keys[1] = call.keys[2]
    /\ call.keys[3] > call.keys[1]
    /\ call.ret[1].card = 3
    /\ call.ret[2].card = 1

\* C15: suggest_study_order and calculate_retention_rate leave every
\* progress record and the order of the caller's list as they were; the
\* returned list is a permutation of the input pairs (checked under
\* SpecRank, where the calls repeat and interleave with updates).
C15_ReadOnly ==
    /\ (Ranked \/ call.op = "calculate_retention_rate")
           => cards_progress = call.before
    /\ Ranked =>
           \E f \in Permutations(1 .. Len(call.before)) :
               call.ret = [i \in 1 .. Len(call.before) |-> call.before[f[i]]]

\* a ranking that reorders the pairs, made after an update of one of them
C15_Witness ==
    /\ Ranked
    /\ nreviews >= 1
    /\ call.ret # call.before
    /\ cards_progress = call.before

\* C16: calculate_retention_rate returns exactly 0 for a record without
\* reviews and a value within [0, 1] for every record (checked under
\* SpecRank, rates in millionths).
C16_RetentionRange ==
    /\ \A i \in 1 .. Len(cards_progress) :
           LET rate == calculate_retention_rate(cards_progress[i].progress, clock)
           IN  /\ rate >= 0
               /\ rate <= 10^6
               /\ cards_progress[i].progress.total_reviews = 0 => rate = 0
    /\ call.op = "calculate_retention_rate" =>
           /\ call.ret >= 0
           /\ call.ret <= 10^6
           /\ call.before[call.card].progress.total_reviews = 0 => call.ret = 0

\* a record all of whose reviews were correct, streak 2 or more: accuracy
\* term and streak bonus add up to more than 1
C16_Witness ==
    /\ call.op = "calculate_retention_rate"
    /\ call.before[call.card].progress.total_reviews > 0
    /\ call.before[call.card].progress.correct_reviews
           = call.before[call.card].progress.total_reviews
    /\ call.before[call.card].progress.streak >= 2
    /\ call.ret = 10^6

\* C18 as stated: within one suggest_study_order call every item is scored
\* against the same now (the clock reading at the call).
C18_OneNow ==
    Ranked =>
        \A k \in 1 .. 3 * Len(call.before) : ReadingOfCall(k) = call.now

\* C18, amended: the operations read the wall clock themselves.  A
\* suggest_study_order call scores each pair against the readings taken for
\* that pair, which lie in order between the clock at the call and the clock
\* at its return and are the same now only if the clock stood still;
\* calculate_next_review stamps the record with the clock at the call
\* (checked under SpecRank).
C18_ReadsClock ==
    /\ Ranked =>
           /\ \A i \in 1 .. Len(call.before) :
                  call.keys[i] = priority_score(call.before[i].progress,
                                                ReadingOfCall(3 * i - 2),
                                                ReadingOfCall(3 * i - 1),
                                                ReadingOfCall(3 * i))
           /\ \A k \in 1 .. 3 * Len(call.before) :
                  /\ call.now <= ReadingOfCall(k)
                  /\ ReadingOfCall(k) <= clock
                  /\ k > 1 => ReadingOfCall(k - 1) <= ReadingOfCall(k)
                  /\ clock = call.now => ReadingOfCall(k) = call.now
    /\ (Reviewed /\ cards_progress # <<>>) =>
           \E i \in 1 .. Len(cards_progress) :
               /\ cards_progress[i].progress.last_review = call.now
               /\ cards_progress[i].progress.updated_at = call.now

\* two pairs with the same progress record scored differently in one call:
\* a day boundary passed between their readings
C18_Witness ==
    /\ Ranked
    /\ \E i \in 1 .. Len(call.before) : \E j \in 1 .. Len(call.before) :
           /\ call.before[i].progress = call.before[j].progress
           /\ call.keys[i] # call.keys[j]

\* C19: after n completed evaluations of the card, in any interleaving of
\* the two sessions, the stored total_reviews has grown by exactly n (the
\* row starts at 0; checked under SpecSessions).
C19_NoLostUpdate == progress.total_reviews = nreviews

\* C20 as stated: question generation changes no scheduling field of the
\* stored record (only a review does).
C20_OnlyReviewWrites ==
    call.op = "generate_questions" => progress = call.before

\* C20, amended: the stored record is written by evaluate_answer, once per
\* evaluated answer, with the result of calculate_next_review on the record
\* it loaded, and by generate_questions_for_card, once per generated
\* question, with the record it loaded and next_review set to the clock
\* (checked under SpecSessions).
C20_WritersOfProgress ==
    /\ call.op = "none" => progress = [UserProgress EXCEPT !.next_review = 0]
    /\ call.op = "generate_questions" =>
           /\ progress.next_review = call.now
           /\ \A f \in {"ease_factor", "interval_days", "repetitions", "last_review",
                        "total_reviews", "correct_reviews", "streak"} :
                  progress[f] = call.loaded[f]
    /\ call.op = "evaluate_answer" =>
           [progress |-> progress, next_review |-> call.ret] \in
               calculate_next_review(call.loaded, call.quality, call.response_time,
                                     call.now, call.now)

\* a question generated for a reviewed card that was not yet due
C20_Witness ==
    /\ call.op = "generate_questions"
    /\ call.loaded = call.before
    /\ call.before.total_reviews >= 1
    /\ call.before.next_review > call.now
    /\ progress.next_review = call.now
    /\ progress.interval_days = call.before.interval_days

\* the intervals the quality/repetitions step of the last call can produce
BaseIntervals ==
    IF ClampedQuality < 3 THEN {1}
    ELSE IF call.before.repetitions + 1 = 1 THEN {1}
    ELSE IF call.before.repetitions + 1 = 2 THEN {6}
    ELSE { Min(f, SR_MAX_INTERVAL) :
               f \in int_of_product(call.before.interval_days, progress.ease_factor) }

\* the latency multiplier of the last call, in tenths: expected time E per
\* quality 5: 2 s, 4: 4 s, 3: 8 s, 2: 15 s, 1: 20 s, 0: 30 s (half seconds
\* here); 1.2 below E/2, 1.1 from E/2 to below E, 1.0 at E, 0.9 above E up to
\* 2E, 0.8 above 2E
LatencyMultiplier ==
    LET E == CASE ClampedQuality = 5 -> 4
               [] ClampedQuality = 4 -> 8
               [] ClampedQuality = 3 -> 16
               [] ClampedQuality = 2 -> 30
               [] ClampedQuality = 1 -> 40
               [] ClampedQuality = 0 -> 60
        t == call.response_time
    IN  IF 2 * t < E THEN 12
        ELSE IF t < E THEN 11
        ELSE IF t = E THEN 10
        ELSE IF t <= 2 * E THEN 9
        ELSE 8

\* C21: a review with a response time t stores clamp(floor(I * m), 1, 365),
\* I being the interval of the quality/repetitions step of the same call and
\* m the latency multiplier of t against the expected time of the clamped
\* quality; a review without a response time stores exactly I.
C21_LatencyMultiplier ==
    Reviewed =>
        IF call.response_time = NoTime
        THEN progress.interval_days \in BaseIntervals
        ELSE progress.interval_days \in
                { Max(1, Min((I * LatencyMultiplier) \div 10, SR_MAX_INTERVAL)) :
                      I \in BaseIntervals }

\* a third or later repetition answered in exactly twice the expected time,
\* after the ease factor grew: the multiplier 0.9 applies to the grown
\* interval
C21_Witness ==
    /\ Reviewed
    /\ ClampedQuality = 5
    /\ call.response_time = 8
    /\ call.before.repetitions >= 2
    /\ progress.ease_factor > call.before.ease_factor
    /\ progress.interval_days < SR_MAX_INTERVAL
    /\ progress.interval_days * 10 > call.before.interval_days * 9 * 2

\* the ease factor a review of quality q leaves on record p: p.ease_factor
\* changed by d(q) hundredths and clamped to [1.3, 4.0]
EaseAfter(p, q) ==
    LET d == CASE q = 5 -> 10
               [] q = 4 -> 0
               [] q = 3 -> 0 - 14
               [] q = 2 -> 0 - 32
               [] q = 1 -> 0 - 54
               [] q = 0 -> 0 - 80
    IN  Max(130, Min(400, p.ease_factor + d))

\* C22: the ease factor after a review is clamp(ease + d(q), 1.3, 4.0) with
\* d(5) = +0.10, d(4) = 0, d(3) = -0.14, d(2) = -0.32, d(1) = -0.54,
\* d(0) = -0.80, q the clamped quality; for one prior state it is
\* non-decreasing in the quality; a quality of 3 or less never raises it and
\* a quality of 4 or more never lowers it.
C22_EaseDelta ==
    Reviewed =>
        /\ progress.ease_factor = EaseAfter(call.before, ClampedQuality)
        /\ \A q2 \in 0 .. 5 :
               /\ q2 >= ClampedQuality =>
                      EaseAfter(call.before, q2) >= progress.ease_factor
               /\ q2 <= ClampedQuality =>
                      EaseAfter(call.before, q2) <= progress.ease_factor
        /\ ClampedQuality <= 3 => progress.ease_factor <= call.before.ease_factor
        /\ ClampedQuality >= 4 => progress.ease_factor >= call.before.ease_factor

\* a review of quality 3 that took 0.14 off an ease factor which an earlier
\* review of quality 5 had raised
C22_Witness ==
    /\ Reviewed
    /\ ClampedQuality = 3
    /\ call.before.ease_factor > SR_EASE_FACTOR_DEFAULT
    /\ progress.ease_factor = call.before.ease_factor - 14
    /\ progress.ease_factor > SR_EASE_FACTOR_MIN

\* C23: after any sequence of calculate_next_review calls the stored
\* interval is at most 365 days.
C23_IntervalAtMostMax ==
    progress.interval_days <= 365

\* a fast perfect answer on a record already at 365 days: both the growth by
\* the ease factor and the multiplier 1.2 overshoot, and 365 is stored
C23_Witness ==
    /\ Reviewed
    /\ ClampedQuality = 5
    /\ call.response_time = 1
    /\ call.before.interval_days = 365
    /\ call.before.repetitions >= 2
    /\ progress.interval_days = 365

\* the learning phase of a record: never reviewed, last review failed, one
\* or two successes since the last lapse, three or more
Phase(p) ==
    IF p.total_reviews = 0 THEN "New"
    ELSE IF p.repetitions = 0 THEN "Lapsed"
    ELSE IF p.repetitions < 3 THEN "Learning"
    ELSE "Reviewing"

\* C24: every review moves repetitions up by exactly 1 (quality >= 3) or
\* back to 0 (quality < 3), so a record enters Reviewing only from Learning
\* or Reviewing and Learning only from New, Lapsed or Learning; and in every
\* reachable state a review of every quality 0..5 is possible.
C24_Phases ==
    /\ [][ progress' # progress =>
             /\ progress'.repetitions \in {0, progress.repetitions + 1}
             /\ progress'.repetitions =
                    IF Max(0, Min(5, call'.quality)) < 3
                    THEN 0 ELSE progress.repetitions + 1
             /\ Phase(progress') = "Reviewing" =>
                    Phase(progress) \in {"Learning", "Reviewing"}
             /\ Phase(progress') = "Learning" /\ progress'.repetitions = 1 =>
                    Phase(progress) \in {"New", "Lapsed"}
             /\ Phase(progress') # "New" ]_vars
    /\ [](\A q \in 0 .. 5 :
              calculate_next_review(progress, q, NoTime, clock, clock) # {})

\* a new record that reached Reviewing by three successes, through
\* repetitions 1 and 2
C24_Witness ==
    /\ Reviewed
    /\ Phase(call.before) = "Learning"
    /\ call.before.repetitions = 2
    /\ Phase(progress) = "Reviewing"
    /\ progress.repetitions = 3
    /\ progress.total_reviews = 3

\* C27: in every state reached from a new record by reviews the streak
\* equals repetitions and is at most correct_reviews.
C27_StreakIsRepetitions ==
    /\ progress.streak = progress.repetitions
    /\ progress.streak <= progress.correct_reviews

\* a success after a lapse that followed earlier successes: the streak
\* restarted at 1 while correct_reviews kept counting
C27_Witness ==
    /\ Reviewed
    /\ ClampedQuality >= 3
    /\ call.before.total_reviews > call.before.correct_reviews
    /\ call.before.streak = 0
    /\ progress.streak = 1
    /\ progress.correct_reviews > 1

C26_NewProgress ==
    /\ UserProgress.interval_days = 1
    /\ UserProgress.ease_factor = 250
    /\ UserProgress.repetitions = 0
    /\ UserProgress.total_reviews = 0
    /\ UserProgress.correct_reviews = 0
    /\ UserProgress.streak = 0
    /\ UserProgress.last_review = NoTime
    /\ is_due(UserProgress, clock)
    /\ (call.op = "get_or_create_progress" /\ call.created) =>
           /\ call.ret.interval_days = 1
           /\ call.ret.ease_factor = 250
           /\ call.ret.repetitions = 0
           /\ call.ret.total_reviews = 0
           /\ call.ret.correct_reviews = 0
           /\ call.ret.streak = 0
           /\ call.ret.last_review = NoTime
           /\ is_due(call.ret, call.now)
           /\ is_due(call.ret, clock)
           /\ cards_progress[call.id].card = call.card
           /\ row_to_progress(cards_progress[call.id]) = call.ret
           /\ \A r \in get_due_cards(cards_progress, clock, 0) :
                  \E k \in 1 .. Len(r) :
                      r[k].card = call.card /\ row_to_progress(r[k]) = call.ret

\* the first row of a card, inserted after the clock had advanced
C26_Witness ==
    /\ call.op = "get_or_create_progress"
    /\ call.created
    /\ call.now > 0
    /\ progress_rows(call.before, call.card) = {}
    /\ call.ret.next_review = call.now
    /\ clock = call.now

\* C29: user_progress holds at most one row per card, and when a call of
\* get_or_create_progress has returned, exactly one row for its card, which
\* is the record the call returned.
C29_OneRowPerCard ==
    /\ \A c \in Cards : Cardinality(progress_rows(cards_progress, c)) <= 1
    /\ call.op = "get_or_create_progress" =>
           progress_rows(cards_progress, call.card) = {call.id}

\* C28: when every review succeeds (quality >= 3) and carries no response
\* time, the interval never decreases from the second consecutive success
\* on, eventually is 365 days and stays 365.
C28_Growth ==
    /\ [][(progress' # progress /\ progress.repetitions >= 1)
              => progress'.interval_days >= progress.interval_days]_vars
    /\ <>[](progress.interval_days = 365)

\* the interval reached 365 days from a shorter one on an ease factor of
\* 1.3, the slowest growth there is
C28_Witness ==
    /\ Reviewed
    /\ call.before.ease_factor = SR_EASE_FACTOR_MIN
    /\ progress.ease_factor = SR_EASE_FACTOR_MIN
    /\ call.before.interval_days < 365
    /\ progress.interval_days = 365
    /\ progress.streak >= 19

\* C30: an evaluated answer adds exactly 1 to the session's cards_reviewed;
\* it adds 1 to correct_answers exactly when the grader said correct, which
\* is exactly when the same evaluation adds 1 to the correct_reviews of the
\* record it loaded; correct_answers <= cards_reviewed always; skipping a
\* card changes neither counter (nor any progress row).
C30_SessionCounters ==
    /\ \A s \in Sessions :
           sessions[s].correct_answers <= sessions[s].cards_reviewed
    /\ call.op = "evaluate_answer" =>
           LET was == call.before_session
               is == sessions[call.session]
           IN  /\ is.cards_reviewed = was.cards_reviewed + 1
               /\ is.correct_answers =
                      was.correct_answers + (IF call.is_correct THEN 1 ELSE 0)
               /\ call.ret.correct_reviews =
                      call.before.correct_reviews + (IF call.is_correct THEN 1 ELSE 0)
               /\ call.ret.total_reviews = call.before.total_reviews + 1
               /\ (is.correct_answers = was.correct_answers + 1) <=>
                      (call.ret.correct_reviews = call.before.correct_reviews + 1)
               /\ cards_progress[call.card].progress = call.ret
    /\ call.op = "skip_current_card" =>
           /\ sessions[call.session].cards_reviewed = call.before_session.cards_reviewed
           /\ sessions[call.session].correct_answers = call.before_session.correct_answers
           /\ sessions[call.session].study_index = call.before_session.study_index + 1
           /\ cards_progress = call.rows

\* a session that skipped its first card and then had a wrong answer
\* evaluated after a right one: two answers reviewed, one correct
C30_Witness ==
    /\ call.op = "evaluate_answer"
    /\ ~call.is_correct
    /\ call.before_session.study_index = 1
    /\ call.before_session.cards_reviewed = 1
    /\ call.before_session.correct_answers = 1
    /\ sessions[call.session].cards_reviewed = 2
    /\ sessions[call.session].correct_answers = 1
    /\ call.before.correct_reviews = 1
    /\ call.ret.correct_reviews = 1

====
